---------------------------- MODULE Spec2Model ----------------------------
(***************************************************************************)
(* A model of the rule-similarity analyzer: rule_similarity_core.py (the   *)
(* canonicalizer flatten_rule, compute_embeddings,                         *)
(* compute_similarity_report, cluster_rules, project_umap) and the         *)
(* analysis run of app.py that calls them.                                 *)
(*                                                                         *)
(* Text is a sequence of one-character strings.  Similarities are integers *)
(* in units of 1/10000, rounded similarities in units of 1/1000.           *)
(***************************************************************************)
EXTENDS Integers, Sequences, FiniteSets, TLC

VARIABLES
    \* ---- canonicalizer runs (flatten_rule applied to one input) ----
    rule,            \* the argument of flatten_rule
    flat,            \* flatten_rule(rule), once computed
    flatEncoded,     \* flatten_rule(json.dumps(rule)), once computed
    fpc,             \* position of the canonicalizer run
    \* ---- the analysis run of app.py ----
    pc,              \* position in app.py
    uploaded,        \* the uploaded dataset as read from the file
    df,              \* the rule table: a sequence of rows
    dfCols,          \* the columns df has
    modelLoaded,     \* SentenceTransformer(...) was constructed
    encodeCalled,    \* model.encode(...) was called
    embeddings,      \* one unit vector per row (its angle in degrees)
    sim_df,          \* the similarity matrix, by row position
    report_df,       \* the neighbor table: a sequence of rows
    reportCols,      \* the columns report_df has
    cluster_labels,  \* cluster id -> label
    proj,            \* the 2-D projection, one pair per row
    duplicates_df,   \* the threshold-filtered neighbor table
    top_k,           \* the top_k passed to compute_similarity_report
    orders,          \* the orders in which the downstream stages may run
    done,            \* the downstream stages that have returned
    stableArgsort    \* whether numpy's default argsort keeps equal keys in order

fvars == <<rule, flat, flatEncoded, fpc>>
avars == <<pc, uploaded, df, dfCols, modelLoaded, encodeCalled, embeddings,
           sim_df, report_df, reportCols, cluster_labels, proj, duplicates_df,
           top_k, orders, done, stableArgsort>>
vars == <<rule, flat, flatEncoded, fpc, pc, uploaded, df, dfCols, modelLoaded,
          encodeCalled, embeddings, sim_df, report_df, reportCols,
          cluster_labels, proj, duplicates_df, top_k, orders, done,
          stableArgsort>>

-----------------------------------------------------------------------------
(* Bounds of the model.                                                     *)

\* longest array / object of the generated canonicalizer inputs
MaxLen == 2
\* largest number of rules in an uploaded dataset
MaxRules == 3
\* largest top_k tried on compute_similarity_report
MaxTopK == 2

-----------------------------------------------------------------------------
(* Characters.                                                              *)

Digits == <<"0", "1", "2", "3", "4", "5", "6", "7", "8", "9">>
DigitSet == {Digits[i] : i \in 1..10}
DigitVal(c) == (CHOOSE i \in 1..10 : Digits[i] = c) - 1

\* control characters, written by name
Control == {"<BS>", "<FF>", "<LF>", "<CR>", "<TAB>"}
\* json.decoder.WHITESPACE: [ \t\n\r]*
Whitespace == {" ", "<TAB>", "<LF>", "<CR>"}

At(s, i) == IF i >= 1 /\ i <= Len(s) THEN s[i] ELSE "<EOF>"

RECURSIVE Join(_, _)
\* sep.join(parts)
Join(parts, sep) ==
    IF Len(parts) = 0 THEN <<>>
    ELSE IF Len(parts) = 1 THEN parts[1]
    ELSE parts[1] \o sep \o Join(Tail(parts), sep)

\* Body applied to the value of e, which is computed once for all its uses
Bind(e, Body(_)) == CHOOSE y \in {Body(x) : x \in {e}} : TRUE

\* the sequence f with every entry computed
AsTuple(f) == f \o <<>>

-----------------------------------------------------------------------------
(* JSON-like values: Python's str, int, bool, None, list and dict.  Every   *)
(* value is a record of the same shape; a list item has an empty key, a     *)
(* dict keeps its pairs in insertion order.                                 *)

JStr(s) == [t |-> "str", s |-> s, n |-> 0, items |-> <<>>]
JInt(n) == [t |-> "int", s |-> <<>>, n |-> n, items |-> <<>>]
JBool(b) == [t |-> "bool", s |-> <<>>, n |-> IF b THEN 1 ELSE 0, items |-> <<>>]
JNull == [t |-> "None", s |-> <<>>, n |-> 0, items |-> <<>>]
JList(vs) == [t |-> "list", s |-> <<>>, n |-> 0,
              items |-> [i \in 1..Len(vs) |-> [k |-> <<>>, v |-> vs[i]]]]
JDict(pairs) == [t |-> "dict", s |-> <<>>, n |-> 0, items |-> pairs]

\* d[k] = v on a dict's pairs: a known key keeps its place, a new one is appended
DictSet(pairs, k, v) ==
    IF \E i \in 1..Len(pairs) : pairs[i].k = k
    THEN [i \in 1..Len(pairs) |->
             IF pairs[i].k = k THEN [k |-> k, v |-> v] ELSE pairs[i]]
    ELSE Append(pairs, [k |-> k, v |-> v])

RECURSIVE NatStr(_)
NatStr(n) == IF n < 10 THEN <<Digits[n + 1]>>
             ELSE NatStr(n \div 10) \o <<Digits[(n % 10) + 1]>>

\* str(x) of a scalar
py_str(x) ==
    CASE x.t = "str" -> x.s
      [] x.t = "int" -> IF x.n < 0 THEN <<"-">> \o NatStr(-x.n) ELSE NatStr(x.n)
      [] x.t = "bool" -> IF x.n = 1 THEN <<"T", "r", "u", "e">>
                         ELSE <<"F", "a", "l", "s", "e">>
      [] OTHER -> <<"N", "o", "n", "e">>

-----------------------------------------------------------------------------
(* json.loads, for text without fractions, exponents, \u escapes, NaN or    *)
(* Infinity.  A result is [ok, v, i]: whether the scan succeeded, the value *)
(* and the index after it.                                                  *)

Fail == [ok |-> FALSE, v |-> JNull, i |-> 0]
Ok(v, i) == [ok |-> TRUE, v |-> v, i |-> i]

RECURSIVE SkipWs(_, _)
SkipWs(s, i) == IF At(s, i) \in Whitespace THEN SkipWs(s, i + 1) ELSE i

StartsWith(s, i, lit) ==
    /\ i + Len(lit) - 1 <= Len(s)
    /\ \A j \in 1..Len(lit) : s[i + j - 1] = lit[j]

\* json.decoder.BACKSLASH
Unescape(c) ==
    CASE c = "\"" -> "\""
      [] c = "\\" -> "\\"
      [] c = "/" -> "/"
      [] c = "b" -> "<BS>"
      [] c = "f" -> "<FF>"
      [] c = "n" -> "<LF>"
      [] c = "r" -> "<CR>"
      [] c = "t" -> "<TAB>"
      [] OTHER -> "<EOF>"

RECURSIVE scanstring(_, _, _)
\* the string whose opening quote is at i - 1 (strict: no control characters)
scanstring(s, i, acc) ==
    LET c == At(s, i) IN
    IF c = "<EOF>" \/ c \in Control THEN Fail
    ELSE IF c = "\"" THEN Ok(JStr(acc), i + 1)
    ELSE IF c = "\\"
         THEN LET e == Unescape(At(s, i + 1)) IN
              IF e = "<EOF>" THEN Fail
              ELSE scanstring(s, i + 2, Append(acc, e))
    ELSE scanstring(s, i + 1, Append(acc, c))

RECURSIVE ScanDigits(_, _, _)
ScanDigits(s, i, n) ==
    IF At(s, i) \in DigitSet
    THEN ScanDigits(s, i + 1, 10 * n + DigitVal(At(s, i)))
    ELSE [n |-> n, i |-> i]

\* NUMBER_RE: -?(0|[1-9][0-9]*)
match_number(s, i) ==
    LET neg == At(s, i) = "-"
        j == IF neg THEN i + 1 ELSE i
        c == At(s, j)
    IN  IF c = "0" THEN Ok(JInt(0), j + 1)
        ELSE IF c \in DigitSet
             THEN LET d == ScanDigits(s, j, 0)
                  IN  Ok(JInt(IF neg THEN -d.n ELSE d.n), d.i)
        ELSE Fail

RECURSIVE scan_once(_, _), JSONObjectMembers(_, _, _), JSONArrayElements(_, _, _)

\* the members of an object, from the character after a key's opening quote
JSONObjectMembers(s, i, acc) ==
    LET key == scanstring(s, i, <<>>) IN
    IF ~key.ok THEN Fail
    ELSE LET j == SkipWs(s, key.i) IN
    IF At(s, j) # ":" THEN Fail
    ELSE LET val == scan_once(s, SkipWs(s, j + 1)) IN
    IF ~val.ok THEN Fail
    ELSE LET e == SkipWs(s, val.i)
             pairs == DictSet(acc, key.v.s, val.v)
         IN
    IF At(s, e) = "}" THEN Ok(JDict(pairs), e + 1)
    ELSE IF At(s, e) # "," THEN Fail
    ELSE LET q == SkipWs(s, e + 1) IN
    IF At(s, q) # "\"" THEN Fail
    ELSE JSONObjectMembers(s, q + 1, pairs)

\* json.decoder.JSONObject, from the character after "{"
JSONObject(s, i) ==
    LET j == SkipWs(s, i) IN
    IF At(s, j) = "}" THEN Ok(JDict(<<>>), j + 1)
    ELSE IF At(s, j) = "\"" THEN JSONObjectMembers(s, j + 1, <<>>)
    ELSE Fail

\* the elements of an array, from the first character of an element
JSONArrayElements(s, i, acc) ==
    LET val == scan_once(s, i) IN
    IF ~val.ok THEN Fail
    ELSE LET e == SkipWs(s, val.i)
             vs == Append(acc, val.v)
         IN
    IF At(s, e) = "]" THEN Ok(JList(vs), e + 1)
    ELSE IF At(s, e) # "," THEN Fail
    ELSE JSONArrayElements(s, SkipWs(s, e + 1), vs)

\* json.decoder.JSONArray, from the character after "["
JSONArray(s, i) ==
    LET j == SkipWs(s, i) IN
    IF At(s, j) = "]" THEN Ok(JList(<<>>), j + 1)
    ELSE JSONArrayElements(s, j, <<>>)

\* json.scanner.py_make_scanner._scan_once
scan_once(s, i) ==
    LET c == At(s, i) IN
    IF c = "\"" THEN scanstring(s, i + 1, <<>>)
    ELSE IF c = "{" THEN JSONObject(s, i + 1)
    ELSE IF c = "[" THEN JSONArray(s, i + 1)
    ELSE IF StartsWith(s, i, <<"n", "u", "l", "l">>) THEN Ok(JNull, i + 4)
    ELSE IF StartsWith(s, i, <<"t", "r", "u", "e">>) THEN Ok(JBool(TRUE), i + 4)
    ELSE IF StartsWith(s, i, <<"f", "a", "l", "s", "e">>)
         THEN Ok(JBool(FALSE), i + 5)
    ELSE match_number(s, i)

\* json.loads(s): [raised, v]; trailing text other than whitespace is an error
json_loads(s) ==
    LET r == scan_once(s, SkipWs(s, 1)) IN
    IF ~r.ok THEN [raised |-> TRUE, v |-> JNull]
    ELSE IF SkipWs(s, r.i) # Len(s) + 1 THEN [raised |-> TRUE, v |-> JNull]
    ELSE [raised |-> FALSE, v |-> r.v]

-----------------------------------------------------------------------------
(* json.dumps with its default separators, the encoding the round trip of   *)
(* the canonicalizer is stated with.                                        *)

\* json.encoder.ESCAPE_DCT
Escape(c) ==
    CASE c = "\"" -> <<"\\", "\"">>
      [] c = "\\" -> <<"\\", "\\">>
      [] c = "<BS>" -> <<"\\", "b">>
      [] c = "<FF>" -> <<"\\", "f">>
      [] c = "<LF>" -> <<"\\", "n">>
      [] c = "<CR>" -> <<"\\", "r">>
      [] c = "<TAB>" -> <<"\\", "t">>
      [] OTHER -> <<c>>

RECURSIVE EscapeAll(_)
EscapeAll(s) == IF Len(s) = 0 THEN <<>> ELSE Escape(Head(s)) \o EscapeAll(Tail(s))

encode_basestring(s) == <<"\"">> \o EscapeAll(s) \o <<"\"">>

RECURSIVE json_dumps(_)
json_dumps(x) ==
    CASE x.t = "str" -> encode_basestring(x.s)
      [] x.t = "int" -> py_str(x)
      [] x.t = "bool" -> IF x.n = 1 THEN <<"t", "r", "u", "e">>
                         ELSE <<"f", "a", "l", "s", "e">>
      [] x.t = "None" -> <<"n", "u", "l", "l">>
      [] x.t = "list" ->
            <<"[">> \o Join([i \in 1..Len(x.items) |-> json_dumps(x.items[i].v)],
                            <<",", " ">>) \o <<"]">>
      [] OTHER ->
            <<"{">> \o Join([i \in 1..Len(x.items) |->
                                encode_basestring(x.items[i].k) \o <<":", " ">>
                                    \o json_dumps(x.items[i].v)],
                            <<",", " ">>) \o <<"}">>

-----------------------------------------------------------------------------
(* The Rule Canonicalizer.                                                  *)

RECURSIVE rec(_)
\* flatten_rule.rec
rec(x) ==
    IF x.t = "dict"
    THEN Join([i \in 1..Len(x.items) |->
                  x.items[i].k \o <<":">> \o rec(x.items[i].v)], <<" ">>)
    ELSE IF x.t = "list"
    THEN Join([i \in 1..Len(x.items) |-> rec(x.items[i].v)], <<" ">>)
    ELSE py_str(x)

\* flatten_rule without its try/except: the parse error leaves the function
flatten_rule_unguarded(r) ==
    IF r.t = "str"
    THEN LET parsed == json_loads(r.s) IN
         IF parsed.raised
         THEN [raised |-> TRUE, text |-> <<>>]
         ELSE [raised |-> FALSE, text |-> rec(parsed.v)]
    ELSE [raised |-> FALSE, text |-> rec(r)]

\* flatten_rule(rule): [raised, text]
flatten_rule(r) ==
    IF r.t = "str"
    THEN LET parsed == json_loads(r.s) IN
         IF parsed.raised
         THEN [raised |-> FALSE, text |-> r.s]
         ELSE [raised |-> FALSE, text |-> rec(parsed.v)]
    ELSE [raised |-> FALSE, text |-> rec(r)]

-----------------------------------------------------------------------------
(* Inputs of the canonicalizer runs.                                        *)

\* all sequences over S of length at most n
SeqsUpTo(S, n) == UNION {[1..m -> S] : m \in 0..n}

Keys == {<<"k">>, <<"a", "b">>}

Scalars ==
    { JInt(12), JBool(TRUE), JNull,
      JStr(<<"a", "b">>),                 \* ab
      JStr(<<"7">>),                      \* a string holding a number
      JStr(<<"t", "r", "u", "e">>) }      \* a string holding a literal

\* lists and dicts of scalars
FlatValues ==
    {JList(vs) : vs \in SeqsUpTo(Scalars, MaxLen)}
      \cup {JDict(ps) : ps \in {q \in SeqsUpTo([k : Keys, v : Scalars], MaxLen) :
                                  \A i, j \in 1..Len(q) : q[i].k = q[j].k => i = j}}

\* strings holding the JSON encoding of a value
Encoded(S) == {JStr(json_dumps(v)) : v \in S}

\* a list or a dict around one more value
Wrapped(S) == {JList(<<v>>) : v \in S} \cup {JDict(<<[k |-> <<"k">>, v |-> v]>>) : v \in S}

\* strings that are not JSON
InvalidJson ==
    { <<"{", "b", "a", "d", " ", "j", "s", "o", "n">>,               \* {bad json
      <<>>,                                                           \* empty
      <<"0", "1">>,                                                   \* 01
      <<"[", "1", ",", "]">>,                                         \* [1,]
      <<"{", "'", "k", "'", ":", " ", "1", "}">>,                     \* {'k': 1}
      <<"\"", "a">>,                                                  \* "a
      <<"1", " ", "2">>,                                              \* 1 2
      <<"T", "r", "u", "e">> }                                        \* True

\* strings that are JSON, written other than json.dumps writes it
OtherJson ==
    { <<"-", "0">>,                                                   \* -0
      <<" ", "1", "2", " ">>,                                         \* _12_
      <<"{", "\"", "k", "\"", ":", "1", ",", "\"", "k", "\"", ":", "2", "}">>,
      <<"[", " ", "]">>,
      <<"\"", "a", "\\", "/", "b", "\"">> }                           \* "a\/b"

FlattenInputs ==
    Scalars \cup FlatValues \cup Encoded(Scalars \cup FlatValues)
      \cup Wrapped(FlatValues \cup Encoded(Scalars \cup FlatValues))
      \cup Encoded(Wrapped(FlatValues \cup Encoded(Scalars \cup FlatValues)))
      \cup {JStr(s) : s \in InvalidJson \cup OtherJson}

NotRun == [raised |-> FALSE, text |-> <<"<not run>">>]

-----------------------------------------------------------------------------
(* Sorting as numpy and pandas do it.                                       *)

Reverse(s) == [i \in 1..Len(s) |-> s[Len(s) + 1 - i]]

\* keys.argsort() (kind="quicksort"): the positions of keys in ascending key
\* order.  The default sort is not a stable one by contract: short arrays are
\* insertion-sorted, which keeps equal keys in position order (stable), and a
\* build that orders equal keys the other way round is the alternative kept.
argsort(keys, stable) ==
    LET n == Len(keys)
        Before(j, i) == \/ keys[j] < keys[i]
                        \/ keys[j] = keys[i] /\ (IF stable THEN j < i ELSE j > i)
        rank(i) == Cardinality({j \in 1..n : Before(j, i)}) + 1
    IN  [r \in 1..n |-> CHOOSE i \in 1..n : rank(i) = r]

\* sort_values() left at its default, ascending=True
nargsort_ascending(keys, stable) == AsTuple(argsort(keys, stable))

\* pandas.core.sorting.nargsort(keys, ascending=False): reverse, argsort, reverse
nargsort_descending(keys, stable) ==
    LET n == Len(keys)
    IN  Bind(AsTuple(argsort(AsTuple(Reverse(keys)), stable)),
             LAMBDA p : Reverse([r \in 1..n |-> n + 1 - p[r]]))

\* s.head(k): the first k entries; for k < 0 all but the last -k
head(s, k) ==
    LET m == IF k >= 0 THEN (IF k < Len(s) THEN k ELSE Len(s))
             ELSE (IF Len(s) + k > 0 THEN Len(s) + k ELSE 0)
    IN  SubSeq(s, 1, m)

-----------------------------------------------------------------------------
(* The embedding space: unit vectors in a plane, given by their angle in   *)
(* degrees.  The cosine of the angle between two of them is their dot       *)
(* product, in units of 1/10000.                                           *)

Angles == {0, 41, 43}

Abs(x) == IF x < 0 THEN -x ELSE x

\* cos(d degrees) * 10000 for the differences of Angles
Cos(d) ==
    CASE d = 0 -> 10000
      [] d = 2 -> 9994
      [] d = 41 -> 7547
      [] d = 43 -> 7314

\* sklearn.metrics.pairwise.cosine_similarity of unit vectors
cosine_similarity(emb) ==
    [i \in 1..Len(emb) |-> [j \in 1..Len(emb) |-> Cos(Abs(emb[i] - emb[j]))]]

\* round(score, 3): to the nearest 1/1000, halves to the even neighbour
round3(x) ==
    LET q == x \div 10
        r == x % 10
    IN  IF r < 5 THEN q
        ELSE IF r > 5 THEN q + 1
        ELSE IF q % 2 = 0 THEN q ELSE q + 1

-----------------------------------------------------------------------------
(* CountVectorizer(stop_words="english"): lowercase, tokens of two or more  *)
(* word characters, English stop words dropped, features sorted.            *)

LowerCase == <<"a", "b", "c", "d", "e", "f", "g", "h", "i", "j", "k", "l", "m",
               "n", "o", "p", "q", "r", "s", "t", "u", "v", "w", "x", "y", "z">>
UpperCase == <<"A", "B", "C", "D", "E", "F", "G", "H", "I", "J", "K", "L", "M",
               "N", "O", "P", "Q", "R", "S", "T", "U", "V", "W", "X", "Y", "Z">>

\* the lowercased word characters (\w), in code point order
WordChars == Digits \o <<"_">> \o LowerCase
WordCharSet == {WordChars[i] : i \in 1..Len(WordChars)}
CharCode(c) == CHOOSE i \in 1..Len(WordChars) : WordChars[i] = c

LowerOf == [c \in {UpperCase[i] : i \in 1..26} |->
               LowerCase[CHOOSE i \in 1..26 : UpperCase[i] = c]]
lower(c) == IF c \in DOMAIN LowerOf THEN LowerOf[c] ELSE c

\* the words of sklearn's ENGLISH_STOP_WORDS that the modelled texts can hold
ENGLISH_STOP_WORDS ==
    { <<"n", "o", "n", "e">>, <<"i", "s">>, <<"o", "r">>, <<"a", "n", "d">>,
      <<"n", "o", "t">>, <<"t", "h", "e">>, <<"i", "f">>, <<"n", "o">> }

\* token_pattern (?u)\b\w\w+\b over the lowercased text: the maximal runs of
\* word characters that are at least two long, in order
tokens_of(t) ==
    LET word(i) == i >= 1 /\ i <= Len(t) /\ t[i] \in WordCharSet
        \* the last position of the run that starts at i
        last(i) == CHOOSE j \in i..Len(t) :
                       (\A k \in i..j : word(k)) /\ ~word(j + 1)
        found[i \in 0..Len(t)] ==
            IF i = 0 THEN <<>>
            ELSE IF word(i) /\ ~word(i - 1) /\ last(i) > i
            THEN Append(found[i - 1], SubSeq(t, i, last(i)))
            ELSE found[i - 1]
    IN  found[Len(t)]

tokenize(text) == Bind(AsTuple([i \in 1..Len(text) |-> lower(text[i])]), tokens_of)

\* the analyzer: the tokens of a text without the stop words
RECURSIVE RemoveStopWords(_)
RemoveStopWords(toks) ==
    IF Len(toks) = 0 THEN <<>>
    ELSE IF Head(toks) \in ENGLISH_STOP_WORDS THEN RemoveStopWords(Tail(toks))
    ELSE <<Head(toks)>> \o RemoveStopWords(Tail(toks))

analyze(text) == RemoveStopWords(tokenize(text))

\* the analyzed documents
analyze_all(texts) == AsTuple([r \in 1..Len(texts) |-> analyze(texts[r])])

\* string order of two tokens
RECURSIVE LexLess(_, _)
LexLess(a, b) ==
    IF Len(b) = 0 THEN FALSE
    ELSE IF Len(a) = 0 THEN TRUE
    ELSE IF Head(a) = Head(b) THEN LexLess(Tail(a), Tail(b))
    ELSE CharCode(Head(a)) < CharCode(Head(b))

\* the tokens of the vocabulary in string order
sorted_vocabulary(vocab) ==
    LET rank(t) == Cardinality({u \in vocab : LexLess(u, t)}) + 1
    IN  AsTuple([r \in 1..Cardinality(vocab) |-> CHOOSE t \in vocab : rank(t) = r])

\* vectorizer.get_feature_names_out() after fit: the distinct tokens of all
\* texts, sorted
feature_names_of(texts) ==
    LET vocabulary(docs) ==
            UNION {{docs[r][k] : k \in 1..Len(docs[r])} : r \in 1..Len(docs)}
    IN  Bind(analyze_all(texts),
             LAMBDA docs : Bind(vocabulary(docs), sorted_vocabulary))

\* per feature, its count over the analyzed documents
count_in(features, docs) ==
    AsTuple([f \in 1..Len(features) |->
        LET occ(r) == Cardinality({k \in 1..Len(docs[r]) : docs[r][k] = features[f]})
            sum[r \in 0..Len(docs)] == IF r = 0 THEN 0 ELSE sum[r - 1] + occ(r)
        IN  sum[Len(docs)]])

\* vectorizer.transform(subset).sum(axis=0): per feature, its count over subset
token_counts(features, subset) ==
    Bind(analyze_all(subset), LAMBDA docs : count_in(features, docs))

-----------------------------------------------------------------------------
(* DBSCAN(eps=0.25, min_samples=1, metric="cosine").fit_predict             *)

\* eps, in units of 1/10000
eps == 2500
min_samples == 1
\* the label of a point that belongs to no cluster
NOISE == -1

cosine_distance(a, b) == 10000 - Cos(Abs(a - b))

\* the points within eps of point i, itself included
neighborhood(emb, i) == {j \in 1..Len(emb) : cosine_distance(emb[i], emb[j]) <= eps}

\* a core point under min_samples=2: it needs a neighbour other than itself
is_core_with_neighbour(emb, i) == Cardinality(neighborhood(emb, i)) >= 2

is_core(emb, i) == Cardinality(neighborhood(emb, i)) >= min_samples

RECURSIVE expand(_, _, _)
\* the points reached from the core points of frontier
expand(emb, frontier, seen) ==
    LET new == UNION {neighborhood(emb, v) : v \in {c \in frontier : is_core(emb, c)}}
                 \ seen
    IN  IF new = {} THEN seen ELSE expand(emb, new, seen \cup new)

RECURSIVE dbscan_inner(_, _, _, _)
\* sklearn.cluster._dbscan_inner: points in row order, each unlabelled core
\* point starts the next cluster
dbscan_inner(emb, i, labels, label_num) ==
    IF i > Len(emb) THEN labels
    ELSE IF labels[i] # NOISE \/ ~is_core(emb, i)
    THEN dbscan_inner(emb, i + 1, labels, label_num)
    ELSE LET labelled(reached) ==
                 AsTuple([v \in 1..Len(emb) |->
                             IF v \in reached /\ labels[v] = NOISE
                             THEN label_num ELSE labels[v]])
         IN  Bind(Bind(expand(emb, {i}, {i}), labelled),
                  LAMBDA l : dbscan_inner(emb, i + 1, l, label_num + 1))

fit_predict(emb) == dbscan_inner(emb, 1, [i \in 1..Len(emb) |-> NOISE], 0)

-----------------------------------------------------------------------------
(* The uploaded datasets.                                                   *)

\* {"age": ">18"}
BodyAge == JDict(<<[k |-> <<"a", "g", "e">>, v |-> JStr(<<">", "1", "8">>)]>>)
\* ["tier", "gold", "tier"]
BodyTier == JList(<<JStr(<<"t", "i", "e", "r">>), JStr(<<"g", "o", "l", "d">>),
                    JStr(<<"t", "i", "e", "r">>)>>)
\* {"a": 1}
BodyShort == JDict(<<[k |-> <<"a">>, v |-> JInt(1)]>>)

\* rule bodies: structured (a JSON upload) or JSON text (a CSV upload)
RuleBodies == {BodyAge, JStr(json_dumps(BodyAge)), BodyTier, BodyShort}

\* the columns the file may have
ColumnChoices == {{"rulename", "rule_json"}, {"rulename"}, {"rule_json"}}

RuleName(i) == <<"R">> \o NatStr(i)

\* a row of the rule table; a column the table lacks holds a placeholder
Row(name, body) ==
    [rulename |-> name, rule_json |-> body, text_rule |-> <<>>,
     cluster_id |-> NOISE, cluster_label |-> <<>>]

Column(rows, c) == [i \in 1..Len(rows) |-> rows[i][c]]

\* the values of the "Duplicate Detection Threshold" slider tried, in 1/1000
Thresholds == {740, 900}

\* top_k of the call in app.py
AppTopK == 3
\* top_n of cluster_rules.top_tokens
top_n == 3
\* the order of the downstream stages in app.py
AppOrder == <<"report", "cluster", "project">>

-----------------------------------------------------------------------------
(* rule_similarity_core.py                                                  *)

\* row.drop(label): the positions whose label is not the dropped one
drop(names, label) ==
    LET keep[i \in 0..Len(names)] ==
            IF i = 0 THEN <<>>
            ELSE IF names[i] = label THEN keep[i - 1] ELSE Append(keep[i - 1], i)
    IN  keep[Len(names)]

\* sim_df.loc[rule].drop(rule).sort_values(ascending=False).head(top_k), as
\* positions
top_neighbors(names, m, i, k, stable) ==
    LET scores(others) == AsTuple([p \in 1..Len(others) |-> m[i][others[p]]])
        sorted(others) ==
            Bind(AsTuple(nargsort_descending(scores(others), stable)),
                 LAMBDA by_score : [p \in 1..Len(others) |-> others[by_score[p]]])
    IN  head(Bind(drop(names, names[i]), sorted), k)

\* compute_similarity_report(df, embeddings, top_k):
\* [raised, sim_df, report_df, reportCols]
compute_similarity_report(rows, cols, emb, k, stable) ==
    LET m == cosine_similarity(emb)
        names == Column(rows, "rulename")
        unique == \A i, j \in 1..Len(names) : names[i] = names[j] => i = j
        rows_of(i) ==
            Bind(AsTuple(top_neighbors(names, m, i, k, stable)),
                 LAMBDA top :
                     [p \in 1..Len(top) |->
                         [rule |-> names[i], similar_rule |-> names[top[p]],
                          similarity |-> round3(m[i][top[p]])]])
        all[i \in 0..Len(names)] ==
            IF i = 0 THEN <<>> ELSE all[i - 1] \o rows_of(i)
    IN  IF "rulename" \notin cols \/ ~unique
        THEN \* KeyError: 'rulename'; with a repeated name sim_df.loc[rule] is
             \* a table, whose sort_values() without "by" is a TypeError
             [raised |-> TRUE, sim_df |-> <<>>, report_df |-> <<>>, reportCols |-> {}]
        ELSE [raised |-> FALSE,
              sim_df |-> [index |-> names, values |-> m],
              report_df |-> all[Len(names)],
              \* pd.DataFrame([]) has no columns
              reportCols |-> IF all[Len(names)] = <<>> THEN {}
                             ELSE {"rule", "similar_rule", "similarity"}]

\* top_tokens without the [::-1]: the three lowest counts
top_tokens_ascending(rows, features, cid, stable) ==
    LET InCluster(r) == r.cluster_id = cid
        subset == Column(SelectSeq(rows, InCluster), "text_rule")
        top_idx(counts) == AsTuple(head(argsort(counts, stable), top_n))
        names(idx) == Join([p \in 1..Len(idx) |-> features[idx[p]]], <<",", " ">>)
    IN  IF subset = <<>> THEN <<>>
        ELSE Bind(Bind(token_counts(features, subset), top_idx), names)

\* cluster_rules.top_tokens(cid): the label of a cluster
top_tokens(rows, features, cid, stable) ==
    LET InCluster(r) == r.cluster_id = cid
        subset == Column(SelectSeq(rows, InCluster), "text_rule")
        top_idx(counts) == AsTuple(head(Reverse(argsort(counts, stable)), top_n))
        names(idx) == Join([p \in 1..Len(idx) |-> features[idx[p]]], <<",", " ">>)
    IN  IF subset = <<>> THEN <<>>
        ELSE Bind(Bind(token_counts(features, subset), top_idx), names)

\* the labels assigned to the table taken in reverse row order
with_cluster_id_reversed(rows, labels) ==
    AsTuple([i \in 1..Len(rows) |->
        [rows[Len(rows) + 1 - i] EXCEPT !.cluster_id = labels[i]]])

\* df["cluster_id"] = labels
with_cluster_id(rows, labels) ==
    AsTuple([i \in 1..Len(rows) |-> [rows[i] EXCEPT !.cluster_id = labels[i]]])

\* df["cluster_label"] = df["cluster_id"].map(cluster_labels)
with_cluster_label(rows, labelling) ==
    AsTuple([i \in 1..Len(rows) |->
        [rows[i] EXCEPT !.cluster_label = labelling[rows[i].cluster_id]]])

\* cluster_rules(df, embeddings): [raised, df, dfCols, cluster_labels]
cluster_rules(rows, cols, emb, stable) ==
    LET ids(clustered) == {clustered[i].cluster_id : i \in 1..Len(clustered)}
        labelling(clustered, features) ==
            [cid \in ids(clustered) |-> top_tokens(clustered, features, cid, stable)]
                @@ [cid \in {} |-> <<>>]
        labelled(clustered, features) ==
            Bind(labelling(clustered, features),
                 LAMBDA l : [raised |-> FALSE,
                             df |-> with_cluster_label(clustered, l),
                             dfCols |-> cols \cup {"cluster_id", "cluster_label"},
                             cluster_labels |-> l])
        vectorized(clustered) ==
            Bind(feature_names_of(Column(rows, "text_rule")),
                 LAMBDA features :
                     IF Len(features) = 0
                     THEN \* fit_transform's ValueError: empty vocabulary; the
                          \* cluster_id column is already set
                          [raised |-> TRUE, df |-> clustered,
                           dfCols |-> cols \cup {"cluster_id"},
                           cluster_labels |-> [cid \in {} |-> <<>>]]
                     ELSE labelled(clustered, features))
    IN  Bind(with_cluster_id(rows, fit_predict(emb)), vectorized)

\* project_umap(embeddings).  UMAP's layout is not computed: what is kept is
\* that it is a function of the embeddings alone, one pair per row in row
\* order, and that a single sample is placed at the origin.
project_umap(emb) ==
    [i \in 1..Len(emb) |-> IF Len(emb) = 1 THEN <<0, 0>> ELSE <<emb[i], i>>]

-----------------------------------------------------------------------------
(* The canonicalizer runs: flatten_rule on a value and on its encoding.     *)

NoLabels == [cid \in {} |-> <<>>]
NoUpload == [cols |-> {}, rows |-> <<>>]

AppIdle ==
    /\ pc = "off"
    /\ uploaded = NoUpload
    /\ df = <<>>
    /\ dfCols = {}
    /\ modelLoaded = FALSE
    /\ encodeCalled = FALSE
    /\ embeddings = <<>>
    /\ sim_df = <<>>
    /\ report_df = <<>>
    /\ reportCols = {}
    /\ cluster_labels = NoLabels
    /\ proj = <<>>
    /\ duplicates_df = <<>>
    /\ top_k = AppTopK
    /\ orders = {AppOrder}
    /\ done = {}
    /\ stableArgsort = TRUE

InitFlatten ==
    /\ rule \in FlattenInputs
    /\ flat = NotRun
    /\ flatEncoded = NotRun
    /\ fpc = {}
    /\ AppIdle

\* flatten_rule(rule)
FlattenValue ==
    /\ "value" \notin fpc
    /\ flat' = flatten_rule(rule)
    /\ fpc' = fpc \cup {"value"}
    /\ UNCHANGED <<rule, flatEncoded>>
    /\ UNCHANGED avars

\* flatten_rule(json.dumps(rule))
FlattenEncoded ==
    /\ "encoded" \notin fpc
    /\ flatEncoded' = flatten_rule(JStr(json_dumps(rule)))
    /\ fpc' = fpc \cup {"encoded"}
    /\ UNCHANGED <<rule, flat>>
    /\ UNCHANGED avars

NextFlatten == FlattenValue \/ FlattenEncoded

SpecFlatten == InitFlatten /\ [][NextFlatten]_vars

-----------------------------------------------------------------------------
(* The analysis run of app.py.                                              *)

FlattenIdle ==
    /\ rule = JNull
    /\ flat = NotRun
    /\ flatEncoded = NotRun
    /\ fpc = {}

AppStart ==
    /\ pc = "start"
    /\ uploaded = NoUpload
    /\ df = <<>>
    /\ dfCols = {}
    /\ modelLoaded = FALSE
    /\ encodeCalled = FALSE
    /\ embeddings = <<>>
    /\ sim_df = <<>>
    /\ report_df = <<>>
    /\ reportCols = {}
    /\ cluster_labels = NoLabels
    /\ proj = <<>>
    /\ duplicates_df = <<>>
    /\ done = {}
    /\ stableArgsort \in BOOLEAN

Init ==
    /\ FlattenIdle
    /\ AppStart
    /\ top_k = AppTopK
    /\ orders = {AppOrder}

\* app.py 27-29: no file yet, st.stop()
StopWithoutFile ==
    /\ pc = "start"
    /\ pc' = "stopped"
    /\ UNCHANGED <<uploaded, df, dfCols, modelLoaded, encodeCalled, embeddings,
                   sim_df, report_df, reportCols, cluster_labels, proj,
                   duplicates_df, top_k, orders, done, stableArgsort>>
    /\ UNCHANGED fvars

\* app.py 21-26: the file is read into df; no column is checked
\* (rule names are R1, R2, ...; a repeated name is tried on two-rule files)
Upload ==
    /\ pc = "start"
    /\ \E n \in 1..MaxRules, cols \in ColumnChoices, repeated \in BOOLEAN :
         \E bodies \in [1..n -> RuleBodies] :
            LET name(i) == IF "rulename" \notin cols THEN <<>>
                           ELSE IF repeated /\ i = 2 THEN RuleName(1)
                           ELSE RuleName(i)
                body(i) == IF "rule_json" \in cols THEN bodies[i] ELSE JNull
                rows == [i \in 1..n |-> Row(name(i), body(i))]
            IN  /\ repeated => n = 2
                /\ uploaded' = [cols |-> cols, rows |-> rows]
                /\ df' = rows
                /\ dfCols' = cols
    /\ pc' = "embed"
    /\ UNCHANGED <<modelLoaded, encodeCalled, embeddings, sim_df, report_df,
                   reportCols, cluster_labels, proj, duplicates_df, top_k,
                   orders, done, stableArgsort>>
    /\ UNCHANGED fvars

\* app.py 38, compute_embeddings(df): the model is loaded first, then the
\* rule_json column is read and flattened, then the texts are encoded.  The
\* model maps each text to one unit vector.
ComputeEmbeddings ==
    /\ pc = "embed"
    /\ modelLoaded' = TRUE
    /\ \E flats \in {AsTuple([i \in 1..Len(df) |-> flatten_rule(df[i].rule_json)])} :
           IF "rule_json" \notin dfCols \/ \E i \in 1..Len(df) : flats[i].raised
           THEN /\ pc' = "error"
                /\ UNCHANGED <<df, dfCols, encodeCalled, embeddings>>
           ELSE LET texts == {flats[i].text : i \in 1..Len(df)} IN
                /\ df' = [i \in 1..Len(df) |->
                             [df[i] EXCEPT !.text_rule = flats[i].text]]
                /\ dfCols' = dfCols \cup {"text_rule"}
                /\ encodeCalled' = TRUE
                /\ \E encode \in [texts -> Angles] :
                      embeddings' = [i \in 1..Len(df) |-> encode[flats[i].text]]
                /\ pc' = "stage"
    /\ UNCHANGED <<uploaded, sim_df, report_df, reportCols, cluster_labels, proj,
                   duplicates_df, top_k, orders, done, stableArgsort>>
    /\ UNCHANGED fvars

\* the named stage is the next one of a permitted order
Current(name) ==
    /\ pc = "stage"
    /\ {o \in orders : /\ {o[i] : i \in 1..Cardinality(done)} = done
                       /\ Cardinality(done) < Len(o)
                       /\ o[Cardinality(done) + 1] = name} # {}

\* the statement after a downstream stage
Advance(name) ==
    /\ done' = done \cup {name}
    /\ pc' = IF done \cup {name} = {"report", "cluster", "project"}
             THEN "filter" ELSE "stage"

\* app.py 39
ComputeSimilarityReport ==
    /\ Current("report")
    /\ \E r \in {compute_similarity_report(df, dfCols, embeddings, top_k,
                                          stableArgsort)} :
           IF r.raised
           THEN /\ pc' = "error"
                /\ UNCHANGED <<sim_df, report_df, reportCols, done>>
           ELSE /\ sim_df' = r.sim_df
                /\ report_df' = r.report_df
                /\ reportCols' = r.reportCols
                /\ Advance("report")
    /\ UNCHANGED <<uploaded, df, dfCols, modelLoaded, encodeCalled, embeddings,
                   cluster_labels, proj, duplicates_df, top_k, orders,
                   stableArgsort>>
    /\ UNCHANGED fvars

\* app.py 40
ClusterRules ==
    /\ Current("cluster")
    /\ \E r \in {cluster_rules(df, dfCols, embeddings, stableArgsort)} :
           /\ df' = r.df
           /\ dfCols' = r.dfCols
           /\ IF r.raised
              THEN /\ pc' = "error"
                   /\ UNCHANGED <<cluster_labels, done>>
              ELSE /\ cluster_labels' = r.cluster_labels
                   /\ Advance("cluster")
    /\ UNCHANGED <<uploaded, modelLoaded, encodeCalled, embeddings, sim_df,
                   report_df, reportCols, proj, duplicates_df, top_k, orders,
                   stableArgsort>>
    /\ UNCHANGED fvars

\* app.py 41
ProjectUmap ==
    /\ Current("project")
    /\ proj' = project_umap(embeddings)
    /\ Advance("project")
    /\ UNCHANGED <<uploaded, df, dfCols, modelLoaded, encodeCalled, embeddings,
                   sim_df, report_df, reportCols, cluster_labels, duplicates_df,
                   top_k, orders, stableArgsort>>
    /\ UNCHANGED fvars

\* report_df[report_df["similarity"] >= similarity_threshold]
\*     .sort_values(by="similarity", ascending=False)
duplicates_of(report, threshold, stable) ==
    LET AtLeast(r) == r.similarity >= threshold
        sorted(kept) ==
            Bind(AsTuple(nargsort_descending(AsTuple(Column(kept, "similarity")),
                                             stable)),
                 LAMBDA by_score : AsTuple([p \in 1..Len(kept) |-> kept[by_score[p]]]))
    IN  Bind(SelectSeq(report, AtLeast), sorted)

\* app.py 48-71: the sidebar choices, the cluster filter on df, the duplicate
\* filter on report_df
FilterDuplicates ==
    /\ pc = "filter"
    /\ \E all \in BOOLEAN, cid \in DOMAIN cluster_labels, threshold \in Thresholds :
         LET InCluster(r) == r.cluster_id = cid IN
         /\ df' = IF all THEN df ELSE SelectSeq(df, InCluster)
         /\ IF "similarity" \notin reportCols
            THEN \* KeyError: 'similarity'
                 /\ pc' = "error"
                 /\ UNCHANGED duplicates_df
            ELSE /\ duplicates_df' = duplicates_of(report_df, threshold,
                                                   stableArgsort)
                 /\ pc' = "done"
    /\ UNCHANGED <<uploaded, dfCols, modelLoaded, encodeCalled, embeddings,
                   sim_df, report_df, reportCols, cluster_labels, proj, top_k,
                   orders, done, stableArgsort>>
    /\ UNCHANGED fvars

Next ==
    \/ StopWithoutFile
    \/ Upload
    \/ ComputeEmbeddings
    \/ ComputeSimilarityReport
    \/ ClusterRules
    \/ ProjectUmap
    \/ FilterDuplicates

Spec == Init /\ [][Next]_vars

\* compute_similarity_report with any top_k from -1 to MaxTopK
InitReport ==
    /\ FlattenIdle
    /\ AppStart
    /\ top_k \in -1..MaxTopK
    /\ orders = {AppOrder}

\* the run up to and including the similarity report
NextReport ==
    \/ Upload
    \/ ComputeEmbeddings
    \/ ComputeSimilarityReport

SpecReport == InitReport /\ [][NextReport]_vars

\* the downstream stages in any order
StageOrders ==
    {o \in [1..3 -> {"report", "cluster", "project"}] :
        \A i, j \in 1..3 : o[i] = o[j] => i = j}

InitOrder ==
    /\ FlattenIdle
    /\ AppStart
    /\ top_k = AppTopK
    /\ orders = StageOrders

\* the run up to the end of the downstream stages
NextOrder ==
    \/ Upload
    \/ ComputeEmbeddings
    \/ ComputeSimilarityReport
    \/ ClusterRules
    \/ ProjectUmap

SpecOrder == InitOrder /\ [][NextOrder]_vars

-----------------------------------------------------------------------------
(* Properties of flatten_rule, under SpecFlatten.                           *)

\* C1: for every JSON value V, flatten_rule(json.dumps(V)) is the same text
\* as flatten_rule(V), also when V is a string that holds JSON.
C1_RoundTrip ==
    {"value", "encoded"} \subseteq fpc => flatEncoded = flat

C7_ChildrenByFlattenRule ==
    ("value" \in fpc /\ rule.t \in {"dict", "list"}) =>
        flat.text =
            Join([i \in 1..Len(rule.items) |->
                     (IF rule.t = "dict" THEN rule.items[i].k \o <<":">> ELSE <<>>)
                         \o flatten_rule(rule.items[i].v).text],
                 <<" ">>)

-----------------------------------------------------------------------------
(* Properties of the analysis run.                                          *)

\* the named downstream stage has returned
StageDone(name) == name \in done

\* the sidebar filter has not yet replaced df
Unfiltered == pc \in {"stage", "filter"}

Min(a, b) == IF a < b THEN a ELSE b

\* the rows of the neighbor table for one rule, in table order
NeighborsOf(name) ==
    LET OfRule(r) == r.rule = name IN SelectSeq(report_df, OfRule)

\* C2: with unique rulenames and top_k >= 0, in the neighbor table of
\* compute_similarity_report every rule's rows are in non-increasing order of
\* rounded similarity, none names the rule itself, each other rule appears at
\* most once, and the rule has exactly min(top_k, n-1) rows.
C2_NeighborOrdering ==
    (StageDone("report") /\ top_k >= 0) =>
        LET names == Column(uploaded.rows, "rulename")
            n == Len(names)
        IN  /\ \A p \in 1..Len(report_df) :
                   \E i \in 1..n : report_df[p].rule = names[i]
            /\ \A i \in 1..n :
                   LET rs == NeighborsOf(names[i]) IN
                   /\ Len(rs) = Min(top_k, n - 1)
                   /\ \A p \in 1..Len(rs) :
                          /\ rs[p].similar_rule # names[i]
                          /\ \E j \in 1..n : rs[p].similar_rule = names[j]
                   /\ \A p, q \in 1..Len(rs) :
                          /\ rs[p].similar_rule = rs[q].similar_rule => p = q
                          /\ p < q => rs[p].similarity >= rs[q].similarity

\* C2 happens: three rules, top_k = 2, and a rule whose two neighbors differ
\* in similarity
C2_Witness ==
    /\ StageDone("report")
    /\ top_k = 2
    /\ Len(uploaded.rows) = 3
    /\ Len(report_df) = 6
    /\ report_df[1].rule = report_df[2].rule
    /\ report_df[1].similarity > report_df[2].similarity

\* C3: after cluster_rules every rule has one cluster id, a non-negative
\* integer; the clusters partition the rule set; cluster_labels has a key for
\* exactly the ids in use; each rule's cluster_label is the mapping's label
\* for its id.
C3_ClusterCoverage ==
    (StageDone("cluster") /\ Unfiltered) =>
        LET members(cid) == {i \in 1..Len(df) : df[i].cluster_id = cid} IN
        /\ {"cluster_id", "cluster_label"} \subseteq dfCols
        /\ Len(df) = Len(uploaded.rows)
        /\ \A i \in 1..Len(df) :
               /\ df[i].rulename = uploaded.rows[i].rulename
               /\ df[i].cluster_id \in Nat
               /\ df[i].cluster_label = cluster_labels[df[i].cluster_id]
        /\ DOMAIN cluster_labels = {df[i].cluster_id : i \in 1..Len(df)}
        /\ UNION {members(cid) : cid \in DOMAIN cluster_labels} = 1..Len(df)
        /\ \A c, d \in DOMAIN cluster_labels :
               c # d => members(c) \cap members(d) = {}

\* C3 happens: three rules, two within eps of each other and one apart
C3_Witness ==
    /\ StageDone("cluster")
    /\ Unfiltered
    /\ Len(df) = 3
    /\ df[1].cluster_id = 0
    /\ df[2].cluster_id = 1
    /\ df[3].cluster_id = 0
    /\ DOMAIN cluster_labels = {0, 1}

\* the file had both required columns
HasRequiredColumns == {"rulename", "rule_json"} \subseteq uploaded.cols

\* C4: with a single-rule dataset the analysis run, the threshold filter and
\* the descending sort included, completes without an error; the neighbor
\* table has no rows and the sole rule is the only member of one cluster.
C4_SingleRuleCompletes ==
    (Len(uploaded.rows) = 1 /\ HasRequiredColumns) =>
        /\ pc # "error"
        /\ StageDone("report") => report_df = <<>>
        /\ StageDone("cluster") =>
               /\ Len(df) = 1
               /\ DOMAIN cluster_labels = {df[1].cluster_id}

\* C5: for a dataset that lacks rulename or rule_json the embedding model
\* is never loaded and the encode call never happens.
C5_AbortBeforeEmbedding ==
    (uploaded.rows # <<>> /\ ~HasRequiredColumns) =>
        /\ ~modelLoaded
        /\ ~encodeCalled

\* the vocabulary fitted over the texts of all rules
Features == feature_names_of(Column(df, "text_rule"))

\* the texts of the members of a cluster
MemberTexts(cid) ==
    LET InCluster(r) == r.cluster_id = cid
    IN  Column(SelectSeq(df, InCluster), "text_rule")

\* the tokens listed in a label
LabelTokens(label) == tokens_of(label)

\* C8: every token of a cluster's label occurs, with count >= 1, in the
\* canonical text of at least one rule of that cluster, also when the
\* cluster's members hold fewer than 3 distinct tokens and the vocabulary more.
C8_LabelFromMembers ==
    (StageDone("cluster") /\ Unfiltered) =>
        \A cid \in DOMAIN cluster_labels :
            LET listed == LabelTokens(cluster_labels[cid])
                texts == MemberTexts(cid)
            IN  \A p \in 1..Len(listed) :
                    \E r \in 1..Len(texts) :
                        \E k \in 1..Len(analyze(texts[r])) :
                            analyze(texts[r])[k] = listed[p]

\* the label of cluster cid lists the top_n features by count over the
\* cluster's members, highest first; TieFirst(f, g) is what holds of two
\* features of equal count when f is preferred to g
TopByCount(cid, TieFirst(_, _)) ==
    LET features == Features
        nf == Len(features)
        counts == token_counts(features, MemberTexts(cid))
        listed == LabelTokens(cluster_labels[cid])
        idx == [p \in 1..Len(listed) |->
                   CHOOSE f \in 1..nf : features[f] = listed[p]]
        unlisted == {u \in 1..nf : \A p \in 1..Len(idx) : idx[p] # u}
    IN  /\ \A p \in 1..Len(listed) : \E f \in 1..nf : features[f] = listed[p]
        /\ cluster_labels[cid] =
               Join([p \in 1..Len(idx) |-> features[idx[p]]], <<",", " ">>)
        /\ Len(idx) = Min(top_n, nf)
        /\ \A p, q \in 1..Len(idx) :
               /\ idx[p] = idx[q] => p = q
               /\ p < q => counts[idx[p]] >= counts[idx[q]]
               /\ (p < q /\ counts[idx[p]] = counts[idx[q]]) => TieFirst(idx[p], idx[q])
        /\ \A p \in 1..Len(idx) : \A u \in unlisted :
               /\ counts[idx[p]] >= counts[u]
               /\ counts[idx[p]] = counts[u] => TieFirst(idx[p], u)

\* C9: a cluster's label is the ", "-join of the 3 tokens with the highest
\* summed count over its members' texts, in descending count order; among
\* tokens of equal count the one earlier in the vectorizer's feature
\* ordering is chosen and listed first.
C9_TiesEarlierFirst ==
    (StageDone("cluster") /\ Unfiltered) =>
        \A cid \in DOMAIN cluster_labels :
            TopByCount(cid, LAMBDA f, g : f < g)

\* C9 as amended: a cluster's label is the ", "-join of min(3, vocabulary
\* size) tokens of the vocabulary fitted over all rules, those with the
\* highest summed count over the cluster's members, in non-increasing count
\* order; with a stable argsort, among tokens of equal count the one LATER
\* in the feature ordering is chosen and listed first.
C9_TiesLaterFirst ==
    (StageDone("cluster") /\ Unfiltered) =>
        \A cid \in DOMAIN cluster_labels :
            TopByCount(cid, LAMBDA f, g : stableArgsort => f > g)

\* C9 happens: the cluster of ["tier", "gold", "tier"] next to a cluster of
\* {"age": ">18"}: tier (2), gold (1), then age before 18 (both 0)
C9_Witness ==
    /\ StageDone("cluster")
    /\ Unfiltered
    /\ stableArgsort
    /\ \E cid \in DOMAIN cluster_labels :
           /\ MemberTexts(cid) = <<rec(BodyTier)>>
           /\ cluster_labels[cid] =
                  <<"t", "i", "e", "r", ",", " ", "g", "o", "l", "d", ",", " ",
                    "a", "g", "e">>

\* the rule table as compute_embeddings left it
Embedded ==
    AsTuple([i \in 1..Len(uploaded.rows) |->
        [uploaded.rows[i] EXCEPT
            !.text_rule = flatten_rule(uploaded.rows[i].rule_json).text]])

EmbeddedCols == uploaded.cols \cup {"text_rule"}

\* C10: after compute_embeddings the stages compute_similarity_report,
\* cluster_rules and project_umap give, in each of their 6 orders, the same
\* similarity matrix, neighbor table, cluster ids, cluster labels and
\* projection: each is what its stage gives on the table as compute_embeddings
\* left it.  compute_similarity_report and project_umap leave the rule table
\* unchanged; cluster_rules only adds cluster_id and cluster_label.
C10_StageOrderIndependence ==
    Unfiltered =>
        \E base \in {Embedded} :
            /\ Len(df) = Len(base)
            /\ \A i \in 1..Len(df) :
                   /\ df[i].rulename = base[i].rulename
                   /\ df[i].rule_json = base[i].rule_json
                   /\ df[i].text_rule = base[i].text_rule
            /\ IF StageDone("cluster")
               THEN dfCols = EmbeddedCols \cup {"cluster_id", "cluster_label"}
               ELSE df = base /\ dfCols = EmbeddedCols
            /\ StageDone("project") => proj = project_umap(embeddings)
            /\ pc = "filter" =>
                   \E r \in {compute_similarity_report(base, EmbeddedCols, embeddings,
                                                       top_k, stableArgsort)},
                      c \in {cluster_rules(base, EmbeddedCols, embeddings,
                                           stableArgsort)} :
                       /\ sim_df = r.sim_df
                       /\ report_df = r.report_df
                       /\ cluster_labels = c.cluster_labels
                       /\ df = c.df

\* C10 happens: project_umap and cluster_rules have run before
\* compute_similarity_report, on three rules in two clusters
C10_Witness ==
    /\ orders = StageOrders
    /\ pc = "stage"
    /\ done = {"project", "cluster"}
    /\ Len(df) = 3
    /\ proj # <<>>
    /\ report_df = <<>>
    /\ DOMAIN cluster_labels = {0, 1}
    /\ df[1].cluster_id # df[2].cluster_id
    /\ df[1].rulename = <<"R", "1">>

=============================================================================
